---- MODULE Spec2Model ----
(***************************************************************************)
(* Model of star_parser.py: the LineStream line cursor, the StarParser     *)
(* recursive-descent recognizer and the StarParseError constructor.        *)
(*                                                                         *)
(* A line is a sequence of one-character strings, so that startswith,      *)
(* slicing, strip and split are computed character by character as Python  *)
(* computes them.  Python's None is the value None below.                  *)
(***************************************************************************)
EXTENDS Integers, Sequences, FiniteSets, TLC

VARIABLES file, stream, pc, block_name, data_names, rows, data_blocks, result

vars == <<file, stream, pc, block_name, data_names, rows, data_blocks, result>>

(***************************************************************************)
(* Bounds of the model.                                                    *)
(***************************************************************************)
MaxLines == 4

MaxBlocks == 3

(***************************************************************************)
(* Python values.                                                          *)
(***************************************************************************)
None == <<"None">>

(***************************************************************************)
(* The characters str.split() and str.strip() take as whitespace, that is  *)
(* those for which str.isspace() holds: 29 in all.  Those without an       *)
(* escape are named below; a character that a string cannot hold here is   *)
(* written as its code point.                                              *)
(***************************************************************************)
\* U+000B, vertical tab
VT == ""

\* U+001C, file separator
FS == ""

\* U+001D, group separator
GS == ""

\* U+001E, record separator
RS == ""

\* U+001F, unit separator
US == ""

\* U+0085, next line
NEL == ""

\* U+00A0, no-break space
NBSP == " "

\* U+1680, ogham space mark
OGHAM == " "

UnicodeSpaces ==
    {"U+2000", "U+2001", "U+2002", "U+2003", "U+2004", "U+2005", "U+2006", "U+2007",
     "U+2008", "U+2009", "U+200A", "U+2028", "U+2029", "U+202F", "U+205F", "U+3000"}

Whitespace ==
    {"\t", "\n", VT, "\f", "\r", FS, GS, RS, US, " ", NEL, NBSP, OGHAM} \cup UnicodeSpaces

(***************************************************************************)
(* The lines the inputs are made of.                                       *)
(***************************************************************************)
LBlank == <<"\n">>

LDataX == <<"d", "a", "t", "a", "_", "x", "\n">>

LDataY == <<"d", "a", "t", "a", "_", " ", "y", VT, "\n">>

LLoop == <<"l", "o", "o", "p", "_", "\n">>

LNameA == <<"_", "a", "\n">>

LNameB == <<"_", "b", "\n">>

LNameAB == <<"_", "a", " ", "_", "b", "\n">>

LUnderscore == <<"_", "\n">>

LRow1 == <<"1", "\n">>

LRow2 == <<"2", "\n">>

LRow12 == <<"1", "\t", "2", "\n">>

LNameFB == <<"_", "\f", "b", "\n">>

LRowF2 == <<"1", "\f", "2", "\n">>

LRow123 == <<"1", " ", "2", " ", "3", "\n">>

LDataTest == <<"d", "a", "t", "a", "_", "t", "e", "s", "t", "\n">>

LNameId == <<"_", "i", "d", "\n">>

LNameValue == <<"_", "v", "a", "l", "u", "e", "\n">>

LRowFoo == <<"1", " ", "f", "o", "o", "\n">>

LRowBar == <<"2", " ", "b", "a", "r", "\n">>

LineSet == {LBlank, LDataX, LDataY, LLoop, LNameA, LNameAB, LUnderscore, LRow1, LRow123}

RECURSIVE SeqsUpTo(_, _)
SeqsUpTo(S, n) ==
    IF n = 0 THEN {<<>>}
    ELSE LET shorter == SeqsUpTo(S, n - 1)
         IN  shorter \cup {Append(s, x) : s \in shorter, x \in S}

LineInputs == SeqsUpTo(LineSet, MaxLines)

(***************************************************************************)
(* Longer inputs: concatenations of whole blocks and separators.           *)
(***************************************************************************)
BlockXA == <<LDataX, LLoop, LNameA, LBlank>>

BlockXB == <<LDataX, LLoop, LNameB, LRow2, LBlank>>

BlockXAB == <<LDataX, LBlank, LLoop, LNameA, LNameFB, LRow12, LRowF2, LBlank>>

BlockYA == <<LDataY, LLoop, LNameAB, LRow1, LRow2, LBlank>>

BlockBad == <<LDataY, LLoop, LNameA, LRow1, LRow12, LBlank>>

\* lines starting with the underscore met among the rows
BlockUnderscoreRows == <<LDataX, LLoop, LNameA, LRow1, LNameA, LNameAB, LBlank>>

BlockTest == <<LDataTest, LLoop, LNameId, LNameValue, LRowFoo, LRowBar, LBlank>>

ChunkSet ==
    {BlockXA, BlockXB, BlockXAB, BlockYA, BlockBad, BlockUnderscoreRows, BlockTest, <<LBlank>>}

RECURSIVE Concat(_)
Concat(ss) == IF ss = <<>> THEN <<>> ELSE Head(ss) \o Concat(Tail(ss))

BlockInputs == {Concat(cs) : cs \in SeqsUpTo(ChunkSet, MaxBlocks)}

Inputs == LineInputs \cup BlockInputs

(***************************************************************************)
(* str methods used by the parser.                                         *)
(***************************************************************************)
startswith(s, prefix) ==
    /\ Len(s) >= Len(prefix)
    /\ SubSeq(s, 1, Len(prefix)) = prefix

\* a slice that keeps the prefix it should drop
slice_from_start(s, n) == s

\* s[n:]
slice_from(s, n) == SubSeq(s, n + 1, Len(s))

RECURSIVE lstrip(_)
lstrip(s) ==
    IF s # <<>> /\ Head(s) \in Whitespace THEN lstrip(Tail(s)) ELSE s

RECURSIVE rstrip(_)
rstrip(s) ==
    IF s # <<>> /\ s[Len(s)] \in Whitespace
    THEN rstrip(SubSeq(s, 1, Len(s) - 1))
    ELSE s

strip(s) == rstrip(lstrip(s))

RECURSIVE split_acc(_, _, _, _)
split_acc(s, i, tok, out) ==
    IF i > Len(s)
    THEN (IF tok = <<>> THEN out ELSE Append(out, tok))
    ELSE IF s[i] \in Whitespace
         THEN split_acc(s, i + 1, <<>>, IF tok = <<>> THEN out ELSE Append(out, tok))
         ELSE split_acc(s, i + 1, Append(tok, s[i]), out)

\* s.split(): the maximal runs of non-whitespace characters, in order
split(s) == split_acc(s, 1, <<>>, <<>>)

(***************************************************************************)
(* LineStream.  The record holds fname, the number of items already drawn  *)
(* from enumerate(iter(file)) and _curr, which is None or <<index, line>>. *)
(***************************************************************************)
fname == "f.star"

\* a cursor whose exhausted source starts again on a later call
LineStream_next_reopen(s, f) ==
    IF s.iter < Len(f)
    THEN [s EXCEPT !.curr = <<s.iter, f[s.iter + 1]>>, !.iter = s.iter + 1]
    ELSE IF s.curr = None /\ Len(f) > 0
         THEN [s EXCEPT !.curr = <<0, f[1]>>, !.iter = 1]
         ELSE [s EXCEPT !.curr = None]

LineStream_next(s, f) ==
    IF s.iter < Len(f)
    THEN [s EXCEPT !.curr = <<s.iter, f[s.iter + 1]>>, !.iter = s.iter + 1]
    ELSE [s EXCEPT !.curr = None]

LineStream_init(f) ==
    LineStream_next([fname |-> fname, iter |-> 0, curr |-> None], f)

LineStream_curr(s) == IF s.curr # None THEN s.curr[2] ELSE None

\* _curr[0] + 1; subscripting None is a TypeError
LineStream_row(s) ==
    IF s.curr = None THEN [kind |-> "TypeError"] ELSE [kind |-> "int", value |-> s.curr[1] + 1]

(***************************************************************************)
(* StarParseError applied to its positional arguments.  __init__(self,     *)
(* stream, descr) needs two of them and reads stream.fname and stream.row. *)
(***************************************************************************)
StarParseError(args) ==
    IF Len(args) < 2
    THEN [kind |-> "TypeError"]
    ELSE LET row == LineStream_row(args[1])
         IN  IF row.kind = "TypeError"
             THEN [kind |-> "TypeError"]
             ELSE [kind |-> "StarParseError",
                   filename |-> args[1].fname,
                   row |-> row.value,
                   description |-> args[2]]

(***************************************************************************)
(* StarParser.                                                             *)
(***************************************************************************)
data_tag == <<"d", "a", "t", "a", "_">>

loop_line == <<"l", "o", "o", "p", "_", "\n">>

NoDataNames == "no data names found for loop"

RowMismatchDescr == "number of data items in row does not match number of data names"

ExpectDescr(item, found) == <<"expected", item, "found", found>>

\* an accept that reports the match without moving the cursor
accept_no_advance(s, f, item) == [ok |-> LineStream_curr(s) = item, stream |-> s]

\* an accept that moves the cursor whether or not the line matches
accept_always_advances(s, f, item) ==
    [ok |-> LineStream_curr(s) = item, stream |-> LineStream_next(s, f)]

accept(s, f, item) ==
    IF LineStream_curr(s) = item
    THEN [ok |-> TRUE, stream |-> LineStream_next(s, f)]
    ELSE [ok |-> FALSE, stream |-> s]

\* the exception expect raises when accept fails
expect_error(s, item) == StarParseError(<<ExpectDescr(item, LineStream_curr(s))>>)

\* the test of line 86 with its two cases confused
no_block_here_inverted(line) == line # None /\ ~startswith(line, data_tag)

\* the test of line 86 without its startswith half
no_block_here_at_end_only(line) == line = None

\* parse_data_block, line 86
no_block_here(line) == line = None \/ ~startswith(line, data_tag)

\* the length check of line 113 left out
row_mismatch_unchecked(row, names) == FALSE

\* parse_loop_content, line 113
row_mismatch(row, names) == Len(row) # Len(names)

\* a store that keeps the entry a name already has
dict_set_first(d, k, v) == [x \in DOMAIN d \cup {k} |-> IF x \in DOMAIN d THEN d[x] ELSE v]

\* data_blocks[block_name] = contents
dict_set(d, k, v) == [x \in DOMAIN d \cup {k} |-> IF x = k THEN v ELSE d[x]]

\* pandas.DataFrame.from_records(rows, columns=data_names)
from_records(rs, names) == [columns |-> names, rows |-> rs]

EmptyDict == [x \in {} |-> None]

Running == [kind |-> "none"]

Init ==
    /\ file \in Inputs
    /\ stream = LineStream_init(file)
    /\ pc = "parse"
    /\ block_name = None
    /\ data_names = <<>>
    /\ rows = <<>>
    /\ data_blocks = EmptyDict
    /\ result = Running

\* parse, lines 70-73: while self.accept("\n"): pass
SkipBlankLines ==
    /\ pc = "parse"
    /\ LET a == accept(stream, file, LBlank)
       IN  /\ stream' = a.stream
           /\ pc' = IF a.ok THEN "parse" ELSE "parse_data_block"
    /\ data_blocks' = EmptyDict
    /\ UNCHANGED <<file, block_name, data_names, rows, result>>

\* parse_data_block, lines 85-90, and parse's break and return, lines 76-82
ParseDataBlock ==
    /\ pc = "parse_data_block"
    /\ IF no_block_here(LineStream_curr(stream))
       THEN /\ result' = [kind |-> "StarFile", value |-> data_blocks]
            /\ pc' = "done"
            /\ UNCHANGED <<stream, block_name>>
       ELSE /\ block_name' = strip(slice_from(LineStream_curr(stream), Len(data_tag)))
            /\ stream' = LineStream_next(stream, file)
            /\ pc' = "after_tag"
            /\ UNCHANGED result
    /\ UNCHANGED <<file, data_names, rows, data_blocks>>

\* parse_data_block, line 91: self.accept("\n")
AcceptBlankAfterTag ==
    /\ pc = "after_tag"
    /\ stream' = accept(stream, file, LBlank).stream
    /\ pc' = "expect_loop"
    /\ UNCHANGED <<file, block_name, data_names, rows, data_blocks, result>>

\* parse_data_block, line 93: self.expect("loop_\n")
ExpectLoop ==
    /\ pc = "expect_loop"
    /\ LET a == accept(stream, file, loop_line)
       IN  IF a.ok
           THEN /\ stream' = a.stream
                /\ data_names' = <<>>
                /\ pc' = "data_names"
                /\ UNCHANGED result
           ELSE /\ result' = expect_error(a.stream, loop_line)
                /\ stream' = a.stream
                /\ pc' = "done"
                /\ UNCHANGED data_names
    /\ UNCHANGED <<file, block_name, rows, data_blocks>>

\* one iteration of the loop of lines 99-103, with parse_data_name, lines 121-128
ParseDataName ==
    /\ pc = "data_names"
    /\ LET line == LineStream_curr(stream)
       IN  IF line = None
           THEN /\ result' = [kind |-> "AttributeError"]
                /\ pc' = "done"
                /\ UNCHANGED <<stream, data_names>>
           ELSE IF ~startswith(line, <<"_">>)
           THEN /\ pc' = "check_data_names"
                /\ UNCHANGED <<stream, data_names, result>>
           ELSE IF split(slice_from(line, 1)) = <<>>
           THEN /\ result' = [kind |-> "IndexError"]
                /\ pc' = "done"
                /\ UNCHANGED <<stream, data_names>>
           ELSE /\ data_names' = Append(data_names, split(slice_from(line, 1))[1])
                /\ stream' = LineStream_next(stream, file)
                /\ pc' = "data_names"
                /\ UNCHANGED result
    /\ UNCHANGED <<file, block_name, rows, data_blocks>>

\* the row loop entered without the test of line 105
CheckDataNames_unchecked ==
    /\ pc = "check_data_names"
    /\ rows' = <<>>
    /\ pc' = "rows"
    /\ UNCHANGED <<file, stream, block_name, data_names, data_blocks, result>>

\* parse_loop_content, lines 105-108
CheckDataNames ==
    /\ pc = "check_data_names"
    /\ IF Len(data_names) = 0
       THEN /\ result' = StarParseError(<<NoDataNames>>)
            /\ pc' = "done"
            /\ UNCHANGED rows
       ELSE /\ rows' = <<>>
            /\ pc' = "rows"
            /\ UNCHANGED result
    /\ UNCHANGED <<file, stream, block_name, data_names, data_blocks>>

\* one iteration of the loop of lines 109-117
ParseRow ==
    /\ pc = "rows"
    /\ LET a == accept(stream, file, LBlank)
           b == accept(a.stream, file, None)
       IN  IF a.ok
           THEN /\ stream' = a.stream
                /\ pc' = "block_complete"
                /\ UNCHANGED <<rows, result>>
           ELSE IF b.ok
           THEN /\ stream' = b.stream
                /\ pc' = "block_complete"
                /\ UNCHANGED <<rows, result>>
           ELSE LET row == split(LineStream_curr(b.stream))
                IN  IF row_mismatch(row, data_names)
                    THEN /\ result' = StarParseError(<<RowMismatchDescr>>)
                         /\ stream' = b.stream
                         /\ pc' = "done"
                         /\ UNCHANGED rows
                    ELSE /\ rows' = Append(rows, row)
                         /\ stream' = LineStream_next(b.stream, file)
                         /\ pc' = "rows"
                         /\ UNCHANGED result
    /\ UNCHANGED <<file, block_name, data_names, data_blocks>>

\* parse_loop_content, line 119, parse_data_block, line 95, parse, lines 79-80
BuildTable ==
    /\ pc = "block_complete"
    /\ data_blocks' = dict_set(data_blocks, block_name, from_records(rows, data_names))
    /\ pc' = "parse_data_block"
    /\ UNCHANGED <<file, stream, block_name, data_names, rows, result>>

Next ==
    \/ SkipBlankLines
    \/ ParseDataBlock
    \/ AcceptBlankAfterTag
    \/ ExpectLoop
    \/ ParseDataName
    \/ CheckDataNames
    \/ ParseRow
    \/ BuildTable

Spec == Init /\ [][Next]_vars

(***************************************************************************)
(* The accepted grammar, read off the input alone:                         *)
(*   file         := blank_line* data_block*                               *)
(*   data_block   := data_ tag line, blank_line?, loop_ line, loop_content *)
(*   loop_content := data_name+ row*, ended by a blank line or the end     *)
(* GrammarScan walks the lines of f from line i in grammar state st and    *)
(* returns whether f is a sentence, the state it ends in and the blocks    *)
(* (name, columns, rows) the sentence declares.                            *)
(***************************************************************************)
IsNameLine(l) == startswith(l, <<"_">>) /\ split(slice_from(l, 1)) # <<>>

IsRowLine(l) ==
    /\ l # LBlank
    /\ l # loop_line
    /\ ~startswith(l, <<"_">>)
    /\ ~startswith(l, data_tag)

NewBlock(blocks, l) ==
    Append(blocks, [name |-> strip(slice_from(l, Len(data_tag))), columns |-> <<>>, rows |-> <<>>])

AddColumn(blocks, l) ==
    [blocks EXCEPT ![Len(blocks)].columns = Append(@, split(slice_from(l, 1))[1])]

AddRow(blocks, l) ==
    [blocks EXCEPT ![Len(blocks)].rows = Append(@, split(l))]

RowFits(blocks, l) ==
    IsRowLine(l) /\ Len(split(l)) = Len(blocks[Len(blocks)].columns)

RECURSIVE GrammarScan(_, _, _, _)
GrammarScan(f, i, st, blocks) ==
    LET l == f[i]
        Bad == [ok |-> FALSE, st |-> st, blocks |-> blocks]
    IN  IF i > Len(f)
        THEN [ok |-> st \in {"lead", "top", "names", "rows"}, st |-> st, blocks |-> blocks]
        ELSE CASE st = "lead" ->
                    IF l = LBlank THEN GrammarScan(f, i + 1, "lead", blocks)
                    ELSE IF startswith(l, data_tag)
                    THEN GrammarScan(f, i + 1, "tag", NewBlock(blocks, l))
                    ELSE Bad
               [] st = "top" ->
                    IF startswith(l, data_tag)
                    THEN GrammarScan(f, i + 1, "tag", NewBlock(blocks, l))
                    ELSE Bad
               [] st = "tag" ->
                    IF l = LBlank THEN GrammarScan(f, i + 1, "tagb", blocks)
                    ELSE IF l = loop_line THEN GrammarScan(f, i + 1, "loop", blocks)
                    ELSE Bad
               [] st = "tagb" ->
                    IF l = loop_line THEN GrammarScan(f, i + 1, "loop", blocks) ELSE Bad
               [] st = "loop" ->
                    IF IsNameLine(l)
                    THEN GrammarScan(f, i + 1, "names", AddColumn(blocks, l))
                    ELSE Bad
               [] st = "names" ->
                    IF IsNameLine(l)
                    THEN GrammarScan(f, i + 1, "names", AddColumn(blocks, l))
                    ELSE IF l = LBlank THEN GrammarScan(f, i + 1, "top", blocks)
                    ELSE IF RowFits(blocks, l)
                    THEN GrammarScan(f, i + 1, "rows", AddRow(blocks, l))
                    ELSE Bad
               [] OTHER ->
                    IF l = LBlank THEN GrammarScan(f, i + 1, "top", blocks)
                    ELSE IF RowFits(blocks, l)
                    THEN GrammarScan(f, i + 1, "rows", AddRow(blocks, l))
                    ELSE Bad

Grammar(f) == GrammarScan(f, 1, "lead", <<>>)

ValidFile(f) == Grammar(f).ok

Declared(f) == Grammar(f).blocks

\* the index of the last declared block named n
LastNamed(bs, n) == CHOOSE i \in 1..Len(bs) : bs[i].name = n /\ \A j \in (i + 1)..Len(bs) : bs[j].name # n

Returned == pc = "done" /\ result.kind = "StarFile"

(***************************************************************************)
(* C1.  For every input valid under the accepted grammar, parse returns a  *)
(* mapping with one Table per data_ block, and each Table has as many rows *)
(* as its block has row lines.                                             *)
(***************************************************************************)
C1_OneTablePerBlock ==
    (pc = "done" /\ ValidFile(file)) =>
        /\ result.kind = "StarFile"
        /\ Cardinality(DOMAIN result.value) = Len(Declared(file))
        /\ \A i \in 1..Len(Declared(file)) :
              /\ Declared(file)[i].name \in DOMAIN result.value
              /\ Len(result.value[Declared(file)[i].name].rows) = Len(Declared(file)[i].rows)

(***************************************************************************)
(* C2.  Every row of every Table, accumulated or returned, has as many     *)
(* values as the Table has column names: a row line with another token     *)
(* count is never appended.                                                *)
(***************************************************************************)
WellShaped(t) == \A i \in 1..Len(t.rows) : Len(t.rows[i]) = Len(t.columns)

C2_RowShape ==
    /\ pc \in {"rows", "block_complete"} => WellShaped(from_records(rows, data_names))
    /\ \A n \in DOMAIN data_blocks : WellShaped(data_blocks[n])
    /\ result.kind = "StarFile" => \A n \in DOMAIN result.value : WellShaped(result.value[n])

C2_Witness ==
    /\ Returned
    /\ \E n \in DOMAIN result.value :
          Len(result.value[n].columns) = 2 /\ Len(result.value[n].rows) = 2

(***************************************************************************)
(* C3.  Every parse ends with a returned StarFile or with a StarParseError *)
(* carrying source identity, row number and description; there is no other *)
(* kind of failure.                                                        *)
(***************************************************************************)
C3_TwoOutcomes ==
    pc = "done" =>
        \/ result.kind = "StarFile"
        \/ /\ result.kind = "StarParseError"
           /\ result.filename = fname
           /\ result.row \in 1..(Len(file) + 1)

(***************************************************************************)
(* C4.  In the row loop, a non-blank, non-end line whose field count       *)
(* differs from the number of data names makes the parse fail with a       *)
(* StarParseError carrying the source identity, the 1-based number of the  *)
(* offending line and the row-count-mismatch description; no Table is      *)
(* produced.                                                               *)
(***************************************************************************)
C4_RowMismatchError ==
    [][(/\ pc = "rows"
        /\ LineStream_curr(stream) \notin {LBlank, None}
        /\ Len(split(LineStream_curr(stream))) # Len(data_names))
       => /\ pc' = "done"
          /\ result'.kind = "StarParseError"
          /\ result'.filename = fname
          /\ result'.row = stream.curr[1] + 1
          /\ result'.description = RowMismatchDescr
          /\ data_blocks' = data_blocks]_vars

(***************************************************************************)
(* C5.  Parsing the lines data_x, loop_, "_a _b", "1 2 3" raises the       *)
(* row-shape-mismatch error with row number 3, the 3-token row being       *)
(* checked against 2 declared data names.                                  *)
(***************************************************************************)
C5_Input == <<LDataX, LLoop, LNameAB, LRow123>>

C5_ExampleError ==
    (pc = "done" /\ file = C5_Input) =>
        /\ result.kind = "StarParseError"
        /\ result.description = RowMismatchDescr
        /\ result.row = 3
        /\ Len(data_names) = 2

(***************************************************************************)
(* C6.  When the loop_ line is followed by zero data-name lines, whether   *)
(* by a line not starting with the underscore or by the end of the input,  *)
(* the parse raises the StarParseError "no data names found for loop".     *)
(***************************************************************************)
C6_EmptyLoopError ==
    [][(/\ data_names = <<>>
        /\ \/ pc = "data_names" /\ LineStream_curr(stream) = None
           \/ pc = "check_data_names")
       => /\ pc' = "done"
          /\ result'.kind = "StarParseError"
          /\ result'.description = NoDataNames]_vars

(***************************************************************************)
(* C7.  expect raises a StarParseError describing the expected line, the   *)
(* actual line and the current row whenever the current line differs from  *)
(* the expected one, the end of the input included; when the lines are     *)
(* equal it advances exactly one line and raises nothing.                  *)
(***************************************************************************)
C7_Expect ==
    [][pc = "expect_loop" =>
          IF LineStream_curr(stream) = loop_line
          THEN /\ result' = Running
               /\ stream' = LineStream_next(stream, file)
          ELSE /\ result'.kind = "StarParseError"
               /\ result'.description = ExpectDescr(loop_line, LineStream_curr(stream))
               /\ result'.row = (IF stream.curr = None THEN Len(file) + 1 ELSE stream.curr[1] + 1)
               /\ stream' = stream]_vars

(***************************************************************************)
(* C8.  If the input ends right after the last data-name line of a loop,   *)
(* the parse succeeds and the block's Table has the declared columns and   *)
(* zero rows.                                                              *)
(***************************************************************************)
C8_EndAfterDataNames ==
    (pc = "done" /\ ValidFile(file) /\ Grammar(file).st = "names") =>
        LET b == Declared(file)[Len(Declared(file))]
        IN  /\ result.kind = "StarFile"
            /\ b.name \in DOMAIN result.value
            /\ result.value[b.name] = [columns |-> b.columns, rows |-> <<>>]

(***************************************************************************)
(* C9.  An input of zero or more blank lines yields the empty StarFile and *)
(* no error.                                                               *)
(***************************************************************************)
OnlyBlankLines(f) == \A i \in 1..Len(f) : f[i] = LBlank

C9_OnlyBlankLines ==
    OnlyBlankLines(file) =>
        /\ result.kind \in {"none", "StarFile"}
        /\ pc = "done" => (result.kind = "StarFile" /\ DOMAIN result.value = {})

C9_Witness == Returned /\ OnlyBlankLines(file) /\ Len(file) >= 2

(***************************************************************************)
(* C10.  When several parsed blocks have the same name, the returned       *)
(* mapping has one entry for that name, holding the Table of the last such *)
(* block of the input.                                                     *)
(***************************************************************************)
TableOf(b) == [columns |-> b.columns, rows |-> b.rows]

C10_LastBlockWins ==
    (Returned /\ ValidFile(file)) =>
        /\ DOMAIN result.value = {Declared(file)[i].name : i \in 1..Len(Declared(file))}
        /\ \A n \in DOMAIN result.value :
              result.value[n] = TableOf(Declared(file)[LastNamed(Declared(file), n)])

C10_Witness ==
    /\ Returned
    /\ ValidFile(file)
    /\ \E i, j \in 1..Len(Declared(file)) :
          /\ i < j
          /\ Declared(file)[i].name = Declared(file)[j].name
          /\ TableOf(Declared(file)[i]) # TableOf(Declared(file)[j])
          /\ result.value[Declared(file)[j].name] = TableOf(Declared(file)[j])

(***************************************************************************)
(* The cursor t is the cursor s moved to the next line of the input: the   *)
(* line after the one s is on, or the end marker after the last line.      *)
(***************************************************************************)
Advanced(s, t) ==
    /\ s.curr # None
    /\ t.fname = s.fname
    /\ t.curr = IF s.curr[1] + 1 < Len(file)
                THEN <<s.curr[1] + 1, file[s.curr[1] + 2]>>
                ELSE None

Failed(r) == r.kind \notin {"none", "StarFile"}

(***************************************************************************)
(* C11.  accept advances the cursor by exactly one line and signals        *)
(* success when the current line equals the expected line; otherwise it    *)
(* signals failure, leaves the cursor unchanged and raises nothing.        *)
(* Stated on the two plain calls accept("\n") of lines 70 and 91.          *)
(***************************************************************************)
C11_Accept ==
    [][(pc \in {"parse", "after_tag"}) =>
          /\ result' = Running
          /\ IF LineStream_curr(stream) = LBlank
             THEN /\ Advanced(stream, stream')
                  /\ pc = "parse" => pc' = "parse"
             ELSE /\ stream' = stream
                  /\ pc = "parse" => pc' = "parse_data_block"]_vars

C11_Witness ==
    /\ pc = "expect_loop"
    /\ stream.curr # None
    /\ stream.curr[1] >= 2
    /\ file[stream.curr[1]] = LBlank
    /\ startswith(file[stream.curr[1] - 1], data_tag)

(***************************************************************************)
(* C12.  Once the current line is the end marker it is the end marker in   *)
(* every later state, whatever further calls of next are made.             *)
(***************************************************************************)
C12_StaysExhausted ==
    [][LineStream_curr(stream) = None => (LineStream_curr(stream') = None /\ stream' = stream)]_vars

\* the row loop was left by accept(None), which called next on the exhausted cursor
C12_Witness ==
    /\ pc = "block_complete"
    /\ LineStream_curr(stream) = None
    /\ Len(file) > 0
    /\ file[Len(file)] # LBlank

(***************************************************************************)
(* C13.  row is defined in every reachable cursor state: the 1-based       *)
(* number of the line under the cursor, and the number of lines plus one   *)
(* at the end of the input.                                                *)
(***************************************************************************)
C13_RowDefined ==
    /\ LineStream_row(stream).kind = "int"
    /\ LineStream_row(stream).value =
          IF stream.curr = None THEN Len(file) + 1 ELSE stream.curr[1] + 1

(***************************************************************************)
(* C14.  A failure aborts the whole parse where it is detected: the step   *)
(* that raises consumes no line and stores no block, and after it nothing  *)
(* happens any more, so no further line is consumed, no further block is   *)
(* parsed and no StarFile is returned.                                     *)
(***************************************************************************)
C14_AbortOnFailure ==
    [][/\ Failed(result) => UNCHANGED vars
       /\ (~Failed(result) /\ Failed(result')) =>
             /\ pc' = "done"
             /\ stream' = stream
             /\ data_blocks' = data_blocks]_vars

\* a failure after a completed block, with lines left in the input
C14_Witness ==
    /\ pc = "done"
    /\ Failed(result)
    /\ DOMAIN data_blocks # {}
    /\ stream.iter < Len(file)

(***************************************************************************)
(* C16.  Within a block the recognizer passes through its phases in order  *)
(* only.  It enters the rows phase on a line that does not start with the  *)
(* underscore, with at least one data name accepted; it leaves the rows    *)
(* phase for the completed block only on a blank line, which is consumed,  *)
(* or at the end of the input; and it never goes back to the data names: a *)
(* line starting with the underscore met among the rows is a row, whose    *)
(* token count is checked.  A failure ends the parse in any phase.         *)
(***************************************************************************)
PhaseOrder ==
    {<<"parse_data_block", "after_tag">>, <<"after_tag", "expect_loop">>,
     <<"expect_loop", "data_names">>, <<"data_names", "data_names">>,
     <<"data_names", "check_data_names">>, <<"check_data_names", "rows">>,
     <<"rows", "rows">>, <<"rows", "block_complete">>,
     <<"block_complete", "parse_data_block">>}

InBlock == {"after_tag", "expect_loop", "data_names", "check_data_names", "rows", "block_complete"}

C16_Phases ==
    [][/\ (pc \in InBlock \/ pc' \in InBlock) =>
             \/ <<pc, pc'>> \in PhaseOrder
             \/ pc' = "done" /\ Failed(result')
       /\ (pc # "rows" /\ pc' = "rows") =>
             /\ Len(data_names) >= 1
             /\ LineStream_curr(stream) # None
             /\ ~startswith(LineStream_curr(stream), <<"_">>)
       /\ (pc = "rows" /\ pc' = "block_complete") =>
             \/ LineStream_curr(stream) = LBlank /\ Advanced(stream, stream')
             \/ LineStream_curr(stream) = None /\ LineStream_curr(stream') = None
       /\ (pc = "rows" /\ LineStream_curr(stream) # None
                       /\ startswith(LineStream_curr(stream), <<"_">>)) =>
             /\ data_names' = data_names
             /\ IF Len(split(LineStream_curr(stream))) = Len(data_names)
                THEN /\ rows' = Append(rows, split(LineStream_curr(stream)))
                     /\ pc' = "rows"
                ELSE /\ rows' = rows
                     /\ pc' = "done"
                     /\ Failed(result')]_vars

\* a line starting with the underscore has been taken as a row
C16_Witness ==
    /\ pc = "rows"
    /\ \E i \in 1..Len(rows) : rows[i][1][1] = "_"

(***************************************************************************)
(* C17.  A Table lists the data names in the order of their declaration    *)
(* lines and the rows in the order of their lines, each row holding the    *)
(* tokens of its line in order; the lines data_test, loop_, _id, _value,   *)
(* "1 foo", "2 bar", blank give exactly test -> columns [id, value], rows  *)
(* [[1, foo], [2, bar]].                                                   *)
(***************************************************************************)
\* the number of input lines before the cursor
Consumed == IF stream.curr = None THEN Len(file) ELSE stream.curr[1]

ExampleStarFile ==
    <<"t", "e", "s", "t">> :>
        [columns |-> << <<"i", "d">>, <<"v", "a", "l", "u", "e">> >>,
         rows |-> << << <<"1">>, <<"f", "o", "o">> >>, << <<"2">>, <<"b", "a", "r">> >> >>]

C17_TableOrder ==
    /\ pc = "rows" =>
          LET n == Len(data_names)
              m == Len(rows)
          IN  /\ Consumed >= n + m
              /\ \A i \in 1..n :
                    LET l == file[Consumed - m - n + i]
                    IN  /\ l[1] = "_"
                        /\ split(SubSeq(l, 2, Len(l))) # <<>>
                        /\ data_names[i] = split(SubSeq(l, 2, Len(l)))[1]
              /\ \A j \in 1..m : rows[j] = split(file[Consumed - m + j])
    /\ (pc = "parse_data_block" /\ block_name # None) =>
          /\ block_name \in DOMAIN data_blocks
          /\ data_blocks[block_name].columns = data_names
          /\ data_blocks[block_name].rows = rows
    /\ (Returned /\ file = BlockTest) => result.value = ExampleStarFile

C17_Witness ==
    /\ Returned
    /\ file = BlockTest
    /\ DOMAIN result.value = {<<"t", "e", "s", "t">>}
    /\ result.value[<<"t", "e", "s", "t">>].rows[2][2] = <<"b", "a", "r">>

(***************************************************************************)
(* C18.  parse_data_block returns "no block here" without raising and      *)
(* without moving the cursor when the current line is the end marker or    *)
(* does not start with data_; otherwise it consumes the tag line, then at  *)
(* most one blank line, and then requires the loop_ line: any other line   *)
(* there, a second blank line included, makes the parse fail with a        *)
(* StarParseError.                                                         *)
(***************************************************************************)
C18_DataBlock ==
    [][/\ pc = "parse_data_block" =>
             IF LineStream_curr(stream) = None \/ ~startswith(LineStream_curr(stream), data_tag)
             THEN stream' = stream /\ ~Failed(result')
             ELSE Advanced(stream, stream') /\ result' = Running
       /\ pc = "after_tag" =>
             /\ result' = Running
             /\ IF LineStream_curr(stream) = LBlank
                THEN Advanced(stream, stream')
                ELSE stream' = stream
       /\ pc = "expect_loop" =>
             IF LineStream_curr(stream) = loop_line
             THEN Advanced(stream, stream') /\ result' = Running
             ELSE result'.kind = "StarParseError"]_vars

(***************************************************************************)
(* C19.  parse_data_name either returns "no further data name" with the    *)
(* cursor unchanged, when the current line does not start with the         *)
(* underscore, the end marker included, or, for every line starting with   *)
(* the underscore, accepts a data name and advances exactly one line; it   *)
(* never fails.                                                            *)
(***************************************************************************)
C19_DataName ==
    [][pc = "data_names" =>
          /\ result' = Running
          /\ IF LineStream_curr(stream) = None \/ ~startswith(LineStream_curr(stream), <<"_">>)
             THEN /\ pc' = "check_data_names"
                  /\ stream' = stream
                  /\ data_names' = data_names
             ELSE /\ pc' = "data_names"
                  /\ Advanced(stream, stream')
                  /\ Len(data_names') = Len(data_names) + 1]_vars

(***************************************************************************)
(* C20.  At the first top-level line that is neither the end of the input  *)
(* nor a data_ line, parse returns the blocks accumulated so far, without  *)
(* error, and leaves that line and all later lines unconsumed: the blocks  *)
(* returned all come from tag lines before that line.                      *)
(***************************************************************************)
TagName(l) == strip(SubSeq(l, Len(data_tag) + 1, Len(l)))

C20_StopsAtForeignLine ==
    [][(/\ pc = "parse_data_block"
        /\ LineStream_curr(stream) # None
        /\ ~startswith(LineStream_curr(stream), data_tag))
       => /\ pc' = "done"
          /\ result' = [kind |-> "StarFile", value |-> data_blocks]
          /\ stream' = stream
          /\ \A n \in DOMAIN data_blocks :
                \E i \in 1..stream.curr[1] :
                    startswith(file[i], data_tag) /\ TagName(file[i]) = n]_vars

\* a block after the line the parse stopped at is missing from the result
C20_Witness ==
    /\ Returned
    /\ stream.curr # None
    /\ DOMAIN result.value # {}
    /\ \E j \in (stream.curr[1] + 2)..Len(file) :
          /\ startswith(file[j], data_tag)
          /\ TagName(file[j]) \notin DOMAIN result.value

====
